---- MODULE Spec2Model ----
(***************************************************************************)
(* Model of the OpenF1 service layer (src/src/services/api.ts) and of the  *)
(* pure computations the pages apply to its results.                       *)
(*                                                                         *)
(* JavaScript strings are sequences of one-character strings, so that      *)
(* split, toUpperCase and the `||` truthiness test are computed and not    *)
(* assumed.  The values null and undefined of a string-typed field are the *)
(* one-element sequences `null` and `undefined`, whose element is not a    *)
(* character.  A null driver (F1Driver | null) is the record nullDriver.   *)
(***************************************************************************)
EXTENDS Integers, Sequences, FiniteSets, Bags, TLC

VARIABLES op, driverNumber, limit, response, outcome, result,
          listPage, galleryPage, detailPage, loads, route

\* The state of a call of the service layer.
service == <<op, driverNumber, limit, response, outcome, result>>

\* The state of the pages: the React state of ListPage, GalleryPage and
\* DetailPage, the loadDriverData calls of DetailPage awaiting their
\* fetches, and the route of App that is matched, whose page is the one
\* that is mounted and runs.
pages == <<listPage, galleryPage, detailPage, loads, route>>

vars == <<service, pages>>

(***************************************************************************)
(* Bounds of the model.                                                    *)
(***************************************************************************)
MaxDrivers == 3      \* longest driver list the remote service returns
MaxLaps == 3         \* longest arbitrary lap list the remote service returns
MaxLapRun == 12      \* longest contiguous lap list 1..n the service returns
MaxLimit == 4        \* largest explicit limit passed to a list operation

(***************************************************************************)
(* JavaScript values.                                                      *)
(***************************************************************************)
null == <<"null">>
undefined == <<"undefined">>
nullDriver == [null |-> TRUE]

\* The truthiness of a string-typed value: null, undefined and "" are falsy.
Truthy(s) == s # null /\ s # undefined /\ s # <<>>

\* a || b on string-typed values.
Or(a, b) == IF Truthy(a) THEN a ELSE b

Range(s) == {s[i] : i \in DOMAIN s}

LowerChars == <<"a","b","c","d","e","f","g","h","i","j","k","l","m",
                "n","o","p","q","r","s","t","u","v","w","x","y","z">>
UpperChars == <<"A","B","C","D","E","F","G","H","I","J","K","L","M",
                "N","O","P","Q","R","S","T","U","V","W","X","Y","Z">>

\* The capital of each small letter, and the small letter of each capital.
upperOf == [c \in Range(LowerChars) |->
               UpperChars[CHOOSE i \in DOMAIN LowerChars : LowerChars[i] = c]]
lowerOf == [c \in Range(UpperChars) |->
               LowerChars[CHOOSE i \in DOMAIN UpperChars : UpperChars[i] = c]]

\* String.prototype.toUpperCase, character by character.
toUpperCaseChar(c) == IF c \in DOMAIN upperOf THEN upperOf[c] ELSE c

toUpperCase(s) == [i \in 1..Len(s) |-> toUpperCaseChar(s[i])]

\* String.prototype.toLowerCase, character by character.
toLowerCaseChar(c) == IF c \in DOMAIN lowerOf THEN lowerOf[c] ELSE c

toLowerCase(s) == [i \in 1..Len(s) |-> toLowerCaseChar(s[i])]

\* String.prototype.includes: q occurs in s as a run of characters.
includes(s, q) ==
    \E k \in 0..(Len(s) - Len(q)) : SubSeq(s, k + 1, k + Len(q)) = q

\* The primary collation weight of a character: white space before digits
\* before letters, a letter and its capital alike.
Digits == <<"0","1","2","3","4","5","6","7","8","9">>

collationWeights ==
    [c \in {" "} \cup Range(Digits) \cup Range(LowerChars) \cup Range(UpperChars) |->
        IF c = " " THEN 0
        ELSE IF c \in Range(Digits)
        THEN CHOOSE i \in DOMAIN Digits : Digits[i] = c
        ELSE Len(Digits) + (CHOOSE i \in DOMAIN LowerChars :
                                LowerChars[i] = toLowerCaseChar(c))]

collationWeight(c) == collationWeights[c]

\* Whether c is a capital letter.
isUpperCaseChar(c) == \E i \in DOMAIN UpperChars : UpperChars[i] = c

\* String.prototype.localeCompare in the default collation, on strings of
\* letters, digits and spaces: -1, 0 or 1.  The strings compare by their
\* primary weights, a proper prefix first; strings alike but for case
\* compare by the first character whose case differs, the small letter
\* first.
localeCompare(a, b) ==
    LET n == IF Len(a) < Len(b) THEN Len(a) ELSE Len(b)
        differ == {i \in 1..n : collationWeight(a[i]) # collationWeight(b[i])}
        caseDiffer == {i \in 1..n : a[i] # b[i]}
        first(S) == CHOOSE i \in S : \A j \in S : i <= j
    IN IF differ # {}
       THEN IF collationWeight(a[first(differ)]) < collationWeight(b[first(differ)])
            THEN -1 ELSE 1
       ELSE IF Len(a) # Len(b)
       THEN IF Len(a) < Len(b) THEN -1 ELSE 1
       ELSE IF caseDiffer # {}
       THEN IF isUpperCaseChar(b[first(caseDiffer)]) THEN -1 ELSE 1
       ELSE 0

\* s.split(' ').pop(): the characters after the last space of s (all of s
\* when it has no space, "" when it ends with one or is empty).
splitPop(s) ==
    LET spaces == {i \in 1..Len(s) : s[i] = " "}
        last == IF spaces = {} THEN 0
                ELSE CHOOSE i \in spaces : \A j \in spaces : j <= i
    IN SubSeq(s, last + 1, Len(s))

\* Array.prototype.sort(compareFn): a stable insertion sort.  Each element is
\* inserted after the last element of the sorted prefix that compareFn does
\* not order after it.  compareFn is the function of the comparator on the
\* pairs of elements.
ArrayInsert(t, x, compareFn) ==
    LET j == CHOOSE j \in 0..Len(t) :
                 /\ (j = 0 \/ compareFn[<<t[j], x>>] <= 0)
                 /\ \A k \in (j + 1)..Len(t) : compareFn[<<t[k], x>>] > 0
    IN SubSeq(t, 1, j) \o <<x>> \o SubSeq(t, j + 1, Len(t))

ArraySort(s, compareFn) ==
    LET sorted[k \in 0..Len(s)] ==
            IF k = 0 THEN <<>> ELSE ArrayInsert(sorted[k - 1], s[k], compareFn)
    IN sorted[Len(s)]

\* Array.prototype.slice(0, end) for end >= 0.
ArraySlice(s, end) == SubSeq(s, 1, IF end < Len(s) THEN end ELSE Len(s))

\* The outcome of an async function: a value returned or an error thrown.
Return(v) == [outcome |-> "returned", value |-> v]
Throw(message) == [outcome |-> "threw", value |-> message]

RECURSIVE SeqsUpTo(_, _)
\* The sequences over S of length at most n.
SeqsUpTo(S, n) ==
    IF n = 0 THEN {<<>>}
    ELSE LET shorter == SeqsUpTo(S, n - 1)
         IN shorter \cup {Append(s, x) : s \in {t \in shorter : Len(t) = n - 1}, x \in S}

(***************************************************************************)
(* getRecentSessionKey: the fixed reference session.                       *)
(***************************************************************************)
getRecentSessionKey == 9693

(***************************************************************************)
(* getCountryCodeFallback                                                  *)
(***************************************************************************)
countryMap == {
    [key |-> <<"V","E","R","S","T","A","P","P","E","N">>, value |-> <<"N","L","D">>],
    [key |-> <<"N","O","R","R","I","S">>, value |-> <<"G","B","R">>],
    [key |-> <<"H","A","M","I","L","T","O","N">>, value |-> <<"G","B","R">>],
    [key |-> <<"R","U","S","S","E","L","L">>, value |-> <<"G","B","R">>],
    [key |-> <<"L","E","C","L","E","R","C">>, value |-> <<"M","O","N">>],
    [key |-> <<"S","A","I","N","Z">>, value |-> <<"E","S","P">>],
    [key |-> <<"A","L","O","N","S","O">>, value |-> <<"E","S","P">>],
    [key |-> <<"P","I","A","S","T","R","I">>, value |-> <<"A","U","S">>],
    [key |-> <<"G","A","S","L","Y">>, value |-> <<"F","R","A">>],
    [key |-> <<"O","C","O","N">>, value |-> <<"F","R","A">>],
    [key |-> <<"T","S","U","N","O","D","A">>, value |-> <<"J","P","N">>],
    [key |-> <<"A","L","B","O","N">>, value |-> <<"T","H","A">>],
    [key |-> <<"S","T","R","O","L","L">>, value |-> <<"C","A","N">>],
    [key |-> <<"H","U","L","K","E","N","B","E","R","G">>, value |-> <<"D","E","U">>],
    [key |-> <<"B","E","A","R","M","A","N">>, value |-> <<"G","B","R">>],
    [key |-> <<"A","N","T","O","N","E","L","L","I">>, value |-> <<"I","T","A">>],
    [key |-> <<"C","O","L","A","P","I","N","T","O">>, value |-> <<"A","R","G">>],
    [key |-> <<"B","O","R","T","O","L","E","T","O">>, value |-> <<"B","R","A">>],
    [key |-> <<"H","A","D","J","A","R">>, value |-> <<"F","R","A">>],
    [key |-> <<"L","A","W","S","O","N">>, value |-> <<"N","Z","L">>] }

\* countryMap[lastName]: undefined when the map has no such key.
countryMapGet(lastName) ==
    IF \E e \in countryMap : e.key = lastName
    THEN (CHOOSE e \in countryMap : e.key = lastName).value
    ELSE undefined

INT == <<"I","N","T">>

\* A fallback that forgets the sentinel for surnames the map does not hold.
getCountryCodeFallbackNoSentinel(driverName) ==
    LET lastName == Or(toUpperCase(splitPop(driverName)), <<>>)
    IN Or(countryMapGet(lastName), <<>>)

getCountryCodeFallback(driverName) ==
    LET lastName == Or(toUpperCase(splitPop(driverName)), <<>>)
    IN Or(countryMapGet(lastName), INT)

(***************************************************************************)
(* The raw driver records the remote service may return (F1Driver).        *)
(***************************************************************************)
UnknownTeam == <<"U","n","k","n","o","w","n"," ","T","e","a","m">>
RedBull == <<"R","e","d"," ","B","u","l","l">>
McLaren == <<"M","c","L","a","r","e","n">>

RawDrivers == {
    \* no country code, surname in the map
    [driver_number |-> 1,
     full_name |-> <<"M","a","x"," ","V","E","R","S","T","A","P","P","E","N">>,
     broadcast_name |-> <<"M"," ","V","E","R","S","T","A","P","P","E","N">>,
     country_code |-> null, team_name |-> RedBull,
     team_colour |-> <<"3","6","7","1","C","6">>],
    \* country code present; same team, another colour
    [driver_number |-> 22,
     full_name |-> <<"Y","u","k","i"," ","T","S","U","N","O","D","A">>,
     broadcast_name |-> <<"Y"," ","T","S","U","N","O","D","A">>,
     country_code |-> <<"J","P","N">>, team_name |-> RedBull,
     team_colour |-> <<"6","6","9","2","F","F">>],
    \* empty country code, lower-case surname in the map
    [driver_number |-> 4,
     full_name |-> <<"l","a","n","d","o"," ","n","o","r","r","i","s">>,
     broadcast_name |-> <<"L"," ","N","O","R","R","I","S">>,
     country_code |-> <<>>, team_name |-> McLaren,
     team_colour |-> <<"F","F","8","0","0","0">>],
    \* country code present although the map would give another one
    [driver_number |-> 81,
     full_name |-> <<"O","s","c","a","r"," ","P","I","A","S","T","R","I">>,
     broadcast_name |-> <<"O"," ","P","I","A","S","T","R","I">>,
     country_code |-> <<"G","B","R">>, team_name |-> McLaren,
     team_colour |-> <<"F","F","8","0","0","0">>],
    \* no country code, surname first: the last token is not in the map;
    \* no team
    [driver_number |-> 44,
     full_name |-> <<"H","A","M","I","L","T","O","N"," ","L","e","w","i","s">>,
     broadcast_name |-> <<"L"," ","H","A","M","I","L","T","O","N">>,
     country_code |-> null, team_name |-> undefined,
     team_colour |-> undefined],
    \* no country code, full name ends with a space; empty team name; a
    \* driver number another record also carries
    [driver_number |-> 4,
     full_name |-> <<"G","u","a","n","y","u"," ","Z","H","O","U"," ">>,
     broadcast_name |-> <<"G"," ","Z","H","O","U">>,
     country_code |-> null, team_name |-> <<>>,
     team_colour |-> undefined] }

\* The driver numbers a caller asks for: the ones above, each of them absent
\* from the fetched lists that hold no such record, and one that no record
\* carries.
DriverNumbers == {d.driver_number : d \in RawDrivers} \cup {99}

\* The outcome of api.get: a response whose body is an array, a response
\* whose body is null, or a failure (network error, timeout, non-2xx status).
Ok(data) == [ok |-> TRUE, body |-> "array", data |-> data]
OkNull == [ok |-> TRUE, body |-> "null", data |-> <<>>]
Failed == [ok |-> FALSE, body |-> "none", data |-> <<>>]

DriverResponses == {Ok(ds) : ds \in SeqsUpTo(RawDrivers, MaxDrivers)} \cup {Failed}

(***************************************************************************)
(* fetchDrivers                                                            *)
(***************************************************************************)
\* The map callback of fetchDrivers with the branches of the choice swapped.
fillCountryCodeSwapped(driver) ==
    [driver EXCEPT !.country_code =
        IF Truthy(driver.country_code) THEN null
        ELSE getCountryCodeFallback(driver.full_name)]

\* The map callback of fetchDrivers.
fillCountryCode(driver) ==
    [driver EXCEPT !.country_code =
        Or(driver.country_code, getCountryCodeFallback(driver.full_name))]

\* fetchDrivers with the failure swallowed.
fetchDriversSwallow(resp) ==
    IF resp.ok
    THEN Return([i \in 1..Len(resp.data) |-> fillCountryCode(resp.data[i])])
    ELSE Return(<<>>)

fetchDrivers(resp) ==
    IF resp.ok
    THEN Return([i \in 1..Len(resp.data) |-> fillCountryCode(resp.data[i])])
    ELSE Throw("Failed to fetch F1 drivers data")

(***************************************************************************)
(* fetchDriverById                                                         *)
(***************************************************************************)
\* Array.prototype.find on driver_number: the first match, or undefined.
findDriver(drivers, n) ==
    IF \E i \in DOMAIN drivers : drivers[i].driver_number = n
    THEN drivers[CHOOSE i \in DOMAIN drivers :
                    /\ drivers[i].driver_number = n
                    /\ \A j \in 1..(i - 1) : drivers[j].driver_number # n]
    ELSE nullDriver

fetchDriverById(n, resp) ==
    LET fetched == fetchDrivers(resp)
    IN IF fetched.outcome = "threw"
       THEN Return(nullDriver)
       ELSE Return(findDriver(fetched.value, n))

(***************************************************************************)
(* fetchTeams                                                              *)
(***************************************************************************)
\* The Map teamsMap is the sequence of its values in insertion order.
teamsMapHas(teamsMap, teamName) ==
    \E i \in DOMAIN teamsMap : teamsMap[i].team_name = teamName

\* The forEach callback that pushes the driver only when it creates the team.
teamsForEachPushOnCreate(teamsMap, driver) ==
    LET teamName == Or(driver.team_name, UnknownTeam)
        countryCode == Or(driver.country_code, INT)
    IN IF teamsMapHas(teamsMap, teamName) THEN teamsMap
       ELSE Append(teamsMap, [team_name |-> teamName,
                              team_colour |-> driver.team_colour,
                              drivers |-> <<driver>>,
                              country_codes |-> <<countryCode>>])

\* The forEach callback that sets the colour of the team from every driver.
teamsForEachLastColour(teamsMap, driver) ==
    LET teamName == Or(driver.team_name, UnknownTeam)
        created == IF ~teamsMapHas(teamsMap, teamName)
                   THEN Append(teamsMap, [team_name |-> teamName,
                                          team_colour |-> driver.team_colour,
                                          drivers |-> <<>>,
                                          country_codes |-> <<>>])
                   ELSE teamsMap
        t == CHOOSE i \in DOMAIN created : created[i].team_name = teamName
        countryCode == Or(driver.country_code, INT)
    IN [created EXCEPT
          ![t].team_colour = driver.team_colour,
          ![t].drivers = Append(@, driver),
          ![t].country_codes = IF countryCode \in Range(@) THEN @
                               ELSE Append(@, countryCode)]

\* The forEach callback of fetchTeams.
teamsForEach(teamsMap, driver) ==
    LET teamName == Or(driver.team_name, UnknownTeam)
        created == IF ~teamsMapHas(teamsMap, teamName)
                   THEN Append(teamsMap, [team_name |-> teamName,
                                          team_colour |-> driver.team_colour,
                                          drivers |-> <<>>,
                                          country_codes |-> <<>>])
                   ELSE teamsMap
        t == CHOOSE i \in DOMAIN created : created[i].team_name = teamName
        countryCode == Or(driver.country_code, INT)
    IN [created EXCEPT
          ![t].drivers = Append(@, driver),
          ![t].country_codes = IF countryCode \in Range(@) THEN @
                               ELSE Append(@, countryCode)]

fetchTeams(resp) ==
    LET fetched == fetchDrivers(resp)
        drivers == fetched.value
        teamsMap[k \in 0..Len(drivers)] ==
            IF k = 0 THEN <<>> ELSE teamsForEach(teamsMap[k - 1], drivers[k])
    IN IF fetched.outcome = "threw"
       THEN Throw("Failed to fetch F1 teams data")
       ELSE Return(teamsMap[Len(drivers)])

(***************************************************************************)
(* getDriverNavigation                                                     *)
(***************************************************************************)
compareDriverNumber(drivers) ==
    [p \in Range(drivers) \X Range(drivers) |-> p[1].driver_number - p[2].driver_number]

\* Array.prototype.findIndex on driver_number: zero-based, -1 when absent.
findIndex(drivers, n) ==
    IF \E i \in DOMAIN drivers : drivers[i].driver_number = n
    THEN (CHOOSE i \in DOMAIN drivers :
             /\ drivers[i].driver_number = n
             /\ \A j \in 1..(i - 1) : drivers[j].driver_number # n) - 1
    ELSE -1

\* Zero-based array indexing.
At(array, index) == array[index + 1]

\* getDriverNavigation without the sort.
getDriverNavigationUnsorted(currentDriverNumber, resp) ==
    LET fetched == fetchDrivers(resp)
        sortedDrivers == fetched.value
        currentIndex == findIndex(sortedDrivers, currentDriverNumber)
    IN IF fetched.outcome = "threw"
       THEN Return([previous |-> nullDriver, next |-> nullDriver])
       ELSE Return([previous |-> IF currentIndex > 0
                                 THEN At(sortedDrivers, currentIndex - 1)
                                 ELSE nullDriver,
                    next |-> IF currentIndex < Len(sortedDrivers) - 1
                             THEN At(sortedDrivers, currentIndex + 1)
                             ELSE nullDriver])

\* getDriverNavigation with no next driver when the index is -1.
getDriverNavigationNotFound(currentDriverNumber, resp) ==
    LET fetched == fetchDrivers(resp)
        sortedDrivers == ArraySort(fetched.value, compareDriverNumber(fetched.value))
        currentIndex == findIndex(sortedDrivers, currentDriverNumber)
    IN IF fetched.outcome = "threw"
       THEN Return([previous |-> nullDriver, next |-> nullDriver])
       ELSE Return([previous |-> IF currentIndex > 0
                                 THEN At(sortedDrivers, currentIndex - 1)
                                 ELSE nullDriver,
                    next |-> IF currentIndex >= 0 /\ currentIndex < Len(sortedDrivers) - 1
                             THEN At(sortedDrivers, currentIndex + 1)
                             ELSE nullDriver])

\* getDriverNavigation without the catch.
getDriverNavigationNoCatch(currentDriverNumber, resp) ==
    LET fetched == fetchDrivers(resp)
        sortedDrivers == ArraySort(fetched.value, compareDriverNumber(fetched.value))
        currentIndex == findIndex(sortedDrivers, currentDriverNumber)
    IN IF fetched.outcome = "threw"
       THEN fetched
       ELSE Return([previous |-> IF currentIndex > 0
                                 THEN At(sortedDrivers, currentIndex - 1)
                                 ELSE nullDriver,
                    next |-> IF currentIndex < Len(sortedDrivers) - 1
                             THEN At(sortedDrivers, currentIndex + 1)
                             ELSE nullDriver])

getDriverNavigation(currentDriverNumber, resp) ==
    LET fetched == fetchDrivers(resp)
        sortedDrivers == ArraySort(fetched.value, compareDriverNumber(fetched.value))
        currentIndex == findIndex(sortedDrivers, currentDriverNumber)
    IN IF fetched.outcome = "threw"
       THEN Return([previous |-> nullDriver, next |-> nullDriver])
       ELSE Return([previous |-> IF currentIndex > 0
                                 THEN At(sortedDrivers, currentIndex - 1)
                                 ELSE nullDriver,
                    next |-> IF currentIndex < Len(sortedDrivers) - 1
                             THEN At(sortedDrivers, currentIndex + 1)
                             ELSE nullDriver])

(***************************************************************************)
(* fetchDriverLaps                                                         *)
(***************************************************************************)
DefaultLapLimit == 10

\* The lap records the remote service may return (F1Lap).
RawLaps == [lap_number : {1, 2, 5}, is_pit_out_lap : BOOLEAN]

\* The contiguous lap list 1..n.
LapRun(n) == [i \in 1..n |-> [lap_number |-> i, is_pit_out_lap |-> FALSE]]

LapResponses ==
    {Ok(ls) : ls \in SeqsUpTo(RawLaps, MaxLaps)} \cup {Failed}

LapRunResponses == {Ok(LapRun(n)) : n \in 0..MaxLapRun} \cup {Failed}

compareLapNumberDesc(laps) ==
    [p \in Range(laps) \X Range(laps) |-> p[2].lap_number - p[1].lap_number]

\* fetchDriverLaps that slices before it sorts.
fetchDriverLapsSliceFirst(n, lim, resp) ==
    IF resp.ok
    THEN Return(ArraySort(ArraySlice(resp.data, lim), compareLapNumberDesc(resp.data)))
    ELSE Return(<<>>)

\* fetchDriverLaps without the catch.
fetchDriverLapsNoCatch(n, lim, resp) ==
    IF resp.ok
    THEN Return(ArraySlice(ArraySort(resp.data, compareLapNumberDesc(resp.data)), lim))
    ELSE Throw("Network Error")

fetchDriverLaps(n, lim, resp) ==
    IF resp.ok
    THEN Return(ArraySlice(ArraySort(resp.data, compareLapNumberDesc(resp.data)), lim))
    ELSE Return(<<>>)

(***************************************************************************)
(* fetchRecentSessions, fetchMeetings, fetchPositions, fetchSessionResults *)
(***************************************************************************)
DefaultSessionLimit == 5

\* new Date(date_start).getTime() on the date strings of the model, in
\* seconds since the epoch.  Two of the strings name the same instant.
getTime(date) ==
    CASE date = "2025-03-14T01:30:00+00:00" -> 1741915800
      [] date = "2025-03-14T02:30:00+01:00" -> 1741915800
      [] date = "2025-03-16T04:00:00+00:00" -> 1742097600

RawSessions == {
    [session_key |-> 9686, date_start |-> "2025-03-14T01:30:00+00:00"],
    [session_key |-> 9687, date_start |-> "2025-03-14T02:30:00+01:00"],
    [session_key |-> 9693, date_start |-> "2025-03-16T04:00:00+00:00"] }

SessionResponses == {Ok(ss) : ss \in SeqsUpTo(RawSessions, 2)} \cup {Failed}

compareDateStartDesc(sessions) ==
    [p \in Range(sessions) \X Range(sessions) |->
        getTime(p[2].date_start) - getTime(p[1].date_start)]

fetchRecentSessions(lim, resp) ==
    IF resp.ok
    THEN Return(ArraySlice(ArraySort(resp.data, compareDateStartDesc(resp.data)), lim))
    ELSE Return(<<>>)

RawMeetings == {[meeting_key |-> 1254, year |-> 2025],
                [meeting_key |-> 1255, year |-> 2025]}

MeetingResponses == {Ok(ms) : ms \in SeqsUpTo(RawMeetings, 2)} \cup {Failed}

fetchMeetings(year, resp) ==
    IF resp.ok THEN Return(resp.data) ELSE Return(<<>>)

RawPositions == [driver_number : {1, 4}, position : {1, 2}]

PositionResponses == {Ok(ps) : ps \in SeqsUpTo(RawPositions, 2)} \cup {Failed}

fetchPositions(sessionKey, resp) ==
    IF resp.ok THEN Return(resp.data) ELSE Return(<<>>)

ResultResponses == {Ok(rs) : rs \in SeqsUpTo(RawPositions, 2)} \cup {Failed}

fetchSessionResults(sessionKey, resp) ==
    IF resp.ok
    THEN Return(IF resp.body = "null" THEN <<>> ELSE resp.data)
    ELSE Return(<<>>)

(***************************************************************************)
(* ListPage                                                                *)
(***************************************************************************)
MaxListDrivers == 2  \* longest driver list the list page loads

\* The value null of the error state of a page (string | null); the other
\* values are the messages.
noError == "null"

ListDriverResponses ==
    {Ok(ds) : ds \in SeqsUpTo(RawDrivers, MaxListDrivers)} \cup {Failed}

\* The texts typed into the search bar of the list page: none, one found in
\* a full name only, one in a broadcast name only, one in a team name only.
ListQueries == {<<>>, <<"a","x">>, <<"L"," ","N">>, <<"D"," ","B">>}

DriverSortOptions == {"name", "team", "driver_number", "country"}

ZZZ == <<"Z","Z","Z">>

\* The state of ListPage once mounted: the useState initial values, and the
\* loadDrivers call of the mount effect awaiting fetchDrivers.  The field raw
\* is no state of the page: it records the response body the drivers came
\* from.
listPageMounted ==
    [drivers |-> <<>>, loading |-> TRUE, error |-> noError,
     searchQuery |-> <<>>, selectedTeam |-> <<>>, selectedCountry |-> <<>>,
     sortConfig |-> [option |-> "name", order |-> "asc"],
     awaiting |-> 1, raw |-> <<>>]

\* loadDrivers up to its await.
loadDriversStart(page) ==
    [page EXCEPT !.loading = TRUE, !.error = noError, !.awaiting = @ + 1]

\* loadDrivers from its await on: fetched is the outcome of fetchDrivers.
loadDriversSettle(page, fetched) ==
    IF fetched.outcome = "returned"
    THEN [page EXCEPT !.drivers = fetched.value, !.loading = FALSE,
                      !.awaiting = @ - 1]
    ELSE [page EXCEPT !.error = "Failed to load F1 drivers. Please try again.",
                      !.loading = FALSE, !.awaiting = @ - 1]

\* The options of the team select: the team names of the drivers.
listTeams(page) ==
    {page.drivers[i].team_name : i \in DOMAIN page.drivers} \ {null, undefined, <<>>}

\* The options of the country select: the country codes of the drivers.
listCountries(page) ==
    {Or(page.drivers[i].country_code, INT) : i \in DOMAIN page.drivers}

\* The filter callback that compares the texts as they are typed.
driverMatchesCaseSensitive(page, driver) ==
    LET query == page.searchQuery
        matchesSearch ==
            \/ includes(driver.full_name, query)
            \/ includes(driver.broadcast_name, query)
            \/ /\ Truthy(driver.team_name)
               /\ includes(driver.team_name, query)
        matchesTeam ==
            ~Truthy(page.selectedTeam) \/ driver.team_name = page.selectedTeam
        matchesCountry ==
            \/ ~Truthy(page.selectedCountry)
            \/ Or(driver.country_code, INT) = page.selectedCountry
    IN matchesSearch /\ matchesTeam /\ matchesCountry

\* The filter callback of filteredAndSortedDrivers.
driverMatches(page, driver) ==
    LET query == toLowerCase(page.searchQuery)
        matchesSearch ==
            \/ includes(toLowerCase(driver.full_name), query)
            \/ includes(toLowerCase(driver.broadcast_name), query)
            \/ /\ Truthy(driver.team_name)
               /\ includes(toLowerCase(driver.team_name), query)
        matchesTeam ==
            ~Truthy(page.selectedTeam) \/ driver.team_name = page.selectedTeam
        matchesCountry ==
            \/ ~Truthy(page.selectedCountry)
            \/ Or(driver.country_code, INT) = page.selectedCountry
    IN matchesSearch /\ matchesTeam /\ matchesCountry

\* The sort comparator with the numbers compared as texts are: by their
\* first digit.
compareDriversNumberAsText(ds, sortConfig) ==
    [p \in Range(ds) \X Range(ds) |->
        LET a == p[1]
            b == p[2]
            firstDigit(n) == IF n < 10 THEN n ELSE n \div 10
            comparison ==
                CASE sortConfig.option = "name" ->
                         localeCompare(a.full_name, b.full_name)
                  [] sortConfig.option = "team" ->
                         localeCompare(Or(a.team_name, <<>>), Or(b.team_name, <<>>))
                  [] sortConfig.option = "driver_number" ->
                         IF firstDigit(a.driver_number) # firstDigit(b.driver_number)
                         THEN firstDigit(a.driver_number) - firstDigit(b.driver_number)
                         ELSE a.driver_number - b.driver_number
                  [] sortConfig.option = "country" ->
                         localeCompare(Or(a.country_code, ZZZ), Or(b.country_code, ZZZ))
                  [] OTHER -> localeCompare(a.full_name, b.full_name)
        IN IF sortConfig.order = "asc" THEN comparison ELSE -comparison]

\* The sort comparator of filteredAndSortedDrivers on the drivers ds.
compareDrivers(ds, sortConfig) ==
    [p \in Range(ds) \X Range(ds) |->
        LET a == p[1]
            b == p[2]
            comparison ==
                CASE sortConfig.option = "name" ->
                         localeCompare(a.full_name, b.full_name)
                  [] sortConfig.option = "team" ->
                         localeCompare(Or(a.team_name, <<>>), Or(b.team_name, <<>>))
                  [] sortConfig.option = "driver_number" ->
                         a.driver_number - b.driver_number
                  [] sortConfig.option = "country" ->
                         localeCompare(Or(a.country_code, ZZZ), Or(b.country_code, ZZZ))
                  [] OTHER -> localeCompare(a.full_name, b.full_name)
        IN IF sortConfig.order = "asc" THEN comparison ELSE -comparison]

\* Array.prototype.filter.
ArrayFilter(s, keep) ==
    LET filtered[k \in 0..Len(s)] ==
            IF k = 0 THEN <<>>
            ELSE IF s[k] \in keep THEN Append(filtered[k - 1], s[k])
            ELSE filtered[k - 1]
    IN filtered[Len(s)]

\* Array.prototype.reverse.
ArrayReverse(s) == [i \in 1..Len(s) |-> s[Len(s) + 1 - i]]

\* The memo with the descending order made by reversing the ascending one.
filteredAndSortedDriversReversed(page) ==
    LET filtered == ArrayFilter(page.drivers,
                                {d \in Range(page.drivers) : driverMatches(page, d)})
        ascending == ArraySort(filtered,
                               compareDrivers(filtered, [page.sortConfig EXCEPT !.order = "asc"]))
    IN IF page.sortConfig.order = "asc" THEN ascending ELSE ArrayReverse(ascending)

\* The memo filteredAndSortedDrivers of ListPage.
filteredAndSortedDrivers(page) ==
    LET filtered == ArrayFilter(page.drivers,
                                {d \in Range(page.drivers) : driverMatches(page, d)})
    IN ArraySort(filtered, compareDrivers(filtered, page.sortConfig))

\* handleSort: the new sortConfig.
handleSort(prev, option) ==
    [option |-> option,
     order |-> IF prev.option = option /\ prev.order = "asc" THEN "desc" ELSE "asc"]

\* The list of drivers is on display: neither the loading nor the error view.
listShown(page) == ~page.loading /\ page.error = noError

(***************************************************************************)
(* GalleryPage                                                             *)
(***************************************************************************)
\* The texts typed into the search bar of the gallery: none, one found in a
\* team name only, one in a broadcast name only.
GalleryQueries == {<<>>, <<"R","E","D">>, <<"L"," ","N">>}

\* The positions of the range input the model moves the slider to (the
\* input runs from 0 to 5): the initial one, one that asks for a second
\* member, and the last one.
GalleryThresholds == {0, 2, 5}

\* The state of GalleryPage once mounted: the useState initial values, and
\* the loadTeams call of the mount effect awaiting fetchTeams.  The field raw
\* is no state of the page: it records the response body the teams came
\* from.
galleryPageMounted ==
    [teams |-> <<>>, loading |-> TRUE, error |-> noError,
     searchQuery |-> <<>>, selectedCountry |-> <<>>, minDrivers |-> 0,
     awaiting |-> 1, raw |-> <<>>]

\* loadTeams up to its await.
loadTeamsStart(page) ==
    [page EXCEPT !.loading = TRUE, !.error = noError, !.awaiting = @ + 1]

\* loadTeams from its await on: fetched is the outcome of fetchTeams.
loadTeamsSettle(page, fetched) ==
    IF fetched.outcome = "returned"
    THEN [page EXCEPT !.teams = fetched.value, !.loading = FALSE,
                      !.awaiting = @ - 1]
    ELSE [page EXCEPT !.error = "Failed to load F1 teams. Please try again.",
                      !.loading = FALSE, !.awaiting = @ - 1]

\* The options of the country select: the country codes of the teams (the
\* memo sorts them, which orders the options only).
galleryCountries(page) ==
    UNION {Range(page.teams[i].country_codes) : i \in DOMAIN page.teams}

\* The filter callback that ignores the slider.
teamMatchesAnyCount(page, team) ==
    LET query == toLowerCase(page.searchQuery)
        matchesSearch ==
            \/ includes(toLowerCase(team.team_name), query)
            \/ \E i \in DOMAIN team.drivers :
                   \/ includes(toLowerCase(team.drivers[i].full_name), query)
                   \/ includes(toLowerCase(team.drivers[i].broadcast_name), query)
        matchesCountry ==
            ~Truthy(page.selectedCountry)
                \/ page.selectedCountry \in Range(team.country_codes)
    IN matchesSearch /\ matchesCountry

\* The filter callback of filteredTeams.
teamMatches(page, team) ==
    LET query == toLowerCase(page.searchQuery)
        matchesSearch ==
            \/ includes(toLowerCase(team.team_name), query)
            \/ \E i \in DOMAIN team.drivers :
                   \/ includes(toLowerCase(team.drivers[i].full_name), query)
                   \/ includes(toLowerCase(team.drivers[i].broadcast_name), query)
        matchesCountry ==
            ~Truthy(page.selectedCountry)
                \/ page.selectedCountry \in Range(team.country_codes)
        matchesDriverCount == Len(team.drivers) >= page.minDrivers
    IN matchesSearch /\ matchesCountry /\ matchesDriverCount

\* The memo filteredTeams of GalleryPage.
filteredTeams(page) ==
    ArrayFilter(page.teams, {t \in Range(page.teams) : teamMatches(page, t)})

\* The gallery of teams is on display: neither the loading nor the error view.
galleryShown(page) == ~page.loading /\ page.error = noError

(***************************************************************************)
(* DetailPage                                                              *)
(***************************************************************************)
MaxLoads == 2  \* most loadDriverData calls the detail page makes in a run

\* The driver numbers of the routes /driver/:driverNumber that a change of
\* the route from outside the page leads to.
DetailNumbers == {1, 22}

RawDriver(n) == CHOOSE d \in RawDrivers : d.driver_number = n

\* The outcomes of a request for the drivers made for the detail page: a
\* list with the drivers of both routes and one more, a list without the
\* driver of one of them, or a failure.
DetailDriverResponses ==
    {Ok(<<RawDriver(81), RawDriver(22), RawDriver(1)>>), Ok(<<RawDriver(1)>>), Failed}

\* The outcomes of a request for the laps made for the detail page.
DetailLapResponses == {Ok(LapRun(2)), Failed}

\* A branch of the Promise.all of loadDriverData that has not completed (it
\* has no result: the field holds an empty one).  The field ok is no state of
\* the program: it records whether the request of the branch succeeded.
pendingBranch(empty) == [done |-> FALSE, ok |-> FALSE, result |-> Return(empty)]

\* A branch of the Promise.all that has completed.
completedBranch(resp, returned) == [done |-> TRUE, ok |-> resp.ok, result |-> returned]

\* A call of loadDriverData(driverNum) at its await; id tells the calls apart.
newLoad(id, driverNum) ==
    [id |-> id, driverNum |-> driverNum,
     driverData |-> pendingBranch(nullDriver),
     lapsData |-> pendingBranch(<<>>),
     navData |-> pendingBranch([previous |-> nullDriver, next |-> nullDriver])]

\* No call of loadDriverData.
noLoad == newLoad(0, 0)

\* The state of DetailPage once mounted at /driver/22: the useState initial
\* values, and the loadDriverData call of the effect at its await.  The
\* fields started, settled, from and errorFrom are no state of the page:
\* they count the calls of loadDriverData, name the call that ended last,
\* the call that stored the driver, laps and navigation, and the call that
\* set the error.
detailPageMounted ==
    [driverNumber |-> 22, driver |-> nullDriver, laps |-> <<>>,
     navigation |-> [previous |-> nullDriver, next |-> nullDriver],
     loading |-> TRUE, error |-> noError,
     started |-> 1, settled |-> 0, from |-> noLoad, errorFrom |-> noLoad]

\* loadDriverData up to its await.
loadDriverDataStart(page, driverNum) ==
    [page EXCEPT !.loading = TRUE, !.error = noError,
                 !.started = @ + 1, !.errorFrom = noLoad]

\* The Promise.all of a load has rejected: a branch has thrown.
promiseAllRejected(load) ==
    \/ load.driverData.done /\ load.driverData.result.outcome = "threw"
    \/ load.lapsData.done /\ load.lapsData.result.outcome = "threw"
    \/ load.navData.done /\ load.navData.result.outcome = "threw"

\* An await that resumes as soon as the driver lookup has completed.
promiseFirstSettled(load) ==
    promiseAllRejected(load) \/ load.driverData.done

\* The await of the Promise.all of a load resumes: every branch has
\* completed, or one has thrown.
promiseAllSettled(load) ==
    \/ promiseAllRejected(load)
    \/ load.driverData.done /\ load.lapsData.done /\ load.navData.done

\* loadDriverData from its await on, that takes a driver without laps for
\* a failure.
loadDriverDataSettleStrict(page, load) ==
    IF promiseAllRejected(load)
    THEN [page EXCEPT !.error = "Failed to load driver data",
                      !.loading = FALSE,
                      !.settled = load.id, !.errorFrom = load]
    ELSE IF load.driverData.result.value = nullDriver
              \/ load.lapsData.result.value = <<>>
    THEN [page EXCEPT !.error = "Driver with number " \o ToString(load.driverNum)
                                    \o " not found.",
                      !.loading = FALSE,
                      !.settled = load.id, !.errorFrom = load]
    ELSE [page EXCEPT !.driver = load.driverData.result.value,
                      !.laps = load.lapsData.result.value,
                      !.navigation = load.navData.result.value,
                      !.loading = FALSE,
                      !.settled = load.id, !.from = load]

\* loadDriverData from its await on, whose early return for a driver that is
\* not found leaves the function without setLoading(false).
loadDriverDataSettleNoFinally(page, load) ==
    IF promiseAllRejected(load)
    THEN [page EXCEPT !.error = "Failed to load driver data",
                      !.loading = FALSE,
                      !.settled = load.id, !.errorFrom = load]
    ELSE IF load.driverData.result.value = nullDriver
    THEN [page EXCEPT !.error = "Driver with number " \o ToString(load.driverNum)
                                    \o " not found.",
                      !.settled = load.id, !.errorFrom = load]
    ELSE [page EXCEPT !.driver = load.driverData.result.value,
                      !.laps = load.lapsData.result.value,
                      !.navigation = load.navData.result.value,
                      !.loading = FALSE,
                      !.settled = load.id, !.from = load]

\* loadDriverData from its await on.
loadDriverDataSettle(page, load) ==
    IF promiseAllRejected(load)
    THEN [page EXCEPT !.error = "Failed to load driver data",
                      !.loading = FALSE,
                      !.settled = load.id, !.errorFrom = load]
    ELSE IF load.driverData.result.value = nullDriver
    THEN [page EXCEPT !.error = "Driver with number " \o ToString(load.driverNum)
                                    \o " not found.",
                      !.loading = FALSE,
                      !.settled = load.id, !.errorFrom = load]
    ELSE [page EXCEPT !.driver = load.driverData.result.value,
                      !.laps = load.lapsData.result.value,
                      !.navigation = load.navData.result.value,
                      !.loading = FALSE,
                      !.settled = load.id, !.from = load]

\* A branch of a load has completed, which made the load the record
\* completed: the page and the loads in flight after the promise jobs that
\* follow it.  The continuation of loadDriverData runs among them when the
\* await resumes, before any other event.
branchCompletes(page, inFlight, load, completed) ==
    IF promiseAllSettled(completed)
    THEN [page |-> loadDriverDataSettle(page, completed),
          loads |-> inFlight \ {load}]
    ELSE [page |-> page, loads |-> (inFlight \ {load}) \cup {completed}]

\* The driver is on display: neither the loading nor the error view.
detailShown(page) ==
    ~page.loading /\ page.error = noError /\ page.driver # nullDriver

(***************************************************************************)
(* App                                                                     *)
(***************************************************************************)
\* The paths of the Routes of App: the page of the matched one is mounted.
ListRoute == "/"
GalleryRoute == "/gallery"
DetailRoute == "/driver/:driverNumber"

Routes == {ListRoute, GalleryRoute, DetailRoute}

(***************************************************************************)
(* The state machine: a caller with no call outstanding calls one service  *)
(* operation, which runs to its end; the caller then takes the result.     *)
(* Each call issues its own request (nothing is cached), so each call      *)
(* draws the outcome of its request afresh.                                *)
(***************************************************************************)
Init ==
    /\ op = "none"
    /\ driverNumber = 0
    /\ limit = 0
    /\ response = Failed
    /\ outcome = "none"
    /\ result = <<>>
    /\ listPage = listPageMounted
    /\ galleryPage = galleryPageMounted
    /\ detailPage = detailPageMounted
    /\ loads = {newLoad(1, detailPageMounted.driverNumber)}
    /\ route \in Routes

FetchDrivers ==
    /\ op = "none"
    /\ \E resp \in DriverResponses :
            /\ op' = "fetchDrivers"
            /\ driverNumber' = 0
            /\ limit' = 0
            /\ response' = resp
            /\ outcome' = fetchDrivers(resp).outcome
            /\ result' = fetchDrivers(resp).value
    /\ UNCHANGED pages

FetchDriverById ==
    /\ op = "none"
    /\ \E n \in DriverNumbers, resp \in DriverResponses :
            /\ op' = "fetchDriverById"
            /\ driverNumber' = n
            /\ limit' = 0
            /\ response' = resp
            /\ outcome' = fetchDriverById(n, resp).outcome
            /\ result' = fetchDriverById(n, resp).value
    /\ UNCHANGED pages

FetchTeams ==
    /\ op = "none"
    /\ \E resp \in DriverResponses :
            /\ op' = "fetchTeams"
            /\ driverNumber' = 0
            /\ limit' = 0
            /\ response' = resp
            /\ outcome' = fetchTeams(resp).outcome
            /\ result' = fetchTeams(resp).value
    /\ UNCHANGED pages

GetDriverNavigation ==
    /\ op = "none"
    /\ \E n \in DriverNumbers, resp \in DriverResponses :
            /\ op' = "getDriverNavigation"
            /\ driverNumber' = n
            /\ limit' = 0
            /\ response' = resp
            /\ outcome' = getDriverNavigation(n, resp).outcome
            /\ result' = getDriverNavigation(n, resp).value
    /\ UNCHANGED pages

\* fetchDriverLaps(driverNumber, limit)
FetchDriverLaps ==
    /\ op = "none"
    /\ \E n \in {1}, lim \in 0..MaxLimit, resp \in LapResponses :
            /\ op' = "fetchDriverLaps"
            /\ driverNumber' = n
            /\ limit' = lim
            /\ response' = resp
            /\ outcome' = fetchDriverLaps(n, lim, resp).outcome
            /\ result' = fetchDriverLaps(n, lim, resp).value
    /\ UNCHANGED pages

\* fetchDriverLaps(driverNumber): the default limit applies.
FetchDriverLapsDefault ==
    /\ op = "none"
    /\ \E n \in {1, 99}, resp \in LapRunResponses :
            /\ op' = "fetchDriverLaps"
            /\ driverNumber' = n
            /\ limit' = DefaultLapLimit
            /\ response' = resp
            /\ outcome' = fetchDriverLaps(n, DefaultLapLimit, resp).outcome
            /\ result' = fetchDriverLaps(n, DefaultLapLimit, resp).value
    /\ UNCHANGED pages

FetchRecentSessions ==
    /\ op = "none"
    /\ \E lim \in {1, DefaultSessionLimit}, resp \in SessionResponses :
            /\ op' = "fetchRecentSessions"
            /\ driverNumber' = 0
            /\ limit' = lim
            /\ response' = resp
            /\ outcome' = fetchRecentSessions(lim, resp).outcome
            /\ result' = fetchRecentSessions(lim, resp).value
    /\ UNCHANGED pages

FetchMeetings ==
    /\ op = "none"
    /\ \E resp \in MeetingResponses :
            /\ op' = "fetchMeetings"
            /\ driverNumber' = 0
            /\ limit' = 0
            /\ response' = resp
            /\ outcome' = fetchMeetings(2025, resp).outcome
            /\ result' = fetchMeetings(2025, resp).value
    /\ UNCHANGED pages

FetchPositions ==
    /\ op = "none"
    /\ \E resp \in PositionResponses :
            /\ op' = "fetchPositions"
            /\ driverNumber' = 0
            /\ limit' = 0
            /\ response' = resp
            /\ outcome' = fetchPositions(getRecentSessionKey, resp).outcome
            /\ result' = fetchPositions(getRecentSessionKey, resp).value
    /\ UNCHANGED pages

\* The response body of /session_result may also be null.
FetchSessionResults ==
    /\ op = "none"
    /\ \E resp \in ResultResponses \cup {OkNull} :
            /\ op' = "fetchSessionResults"
            /\ driverNumber' = 0
            /\ limit' = 0
            /\ response' = resp
            /\ outcome' = fetchSessionResults(getRecentSessionKey, resp).outcome
            /\ result' = fetchSessionResults(getRecentSessionKey, resp).value
    /\ UNCHANGED pages

\* The caller takes the result of the call that ended.
TakeResult ==
    /\ op # "none"
    /\ op' = "none"
    /\ driverNumber' = 0
    /\ limit' = 0
    /\ response' = Failed
    /\ outcome' = "none"
    /\ result' = <<>>
    /\ UNCHANGED pages

Next ==
    \/ FetchDrivers
    \/ FetchDriverById
    \/ FetchTeams
    \/ GetDriverNavigation
    \/ FetchDriverLaps
    \/ FetchDriverLapsDefault
    \/ FetchRecentSessions
    \/ FetchMeetings
    \/ FetchPositions
    \/ FetchSessionResults
    \/ TakeResult

Spec == Init /\ [][Next]_vars

(***************************************************************************)
(* The list page: its load, and the events of its controls.                *)
(***************************************************************************)
\* The fetchDrivers call awaited by loadDrivers ends.
LoadDriversSettle ==
    /\ route = ListRoute
    /\ listPage.awaiting > 0
    /\ \E resp \in ListDriverResponses :
           listPage' = [loadDriversSettle(listPage, fetchDrivers(resp))
                           EXCEPT !.raw = IF resp.ok THEN resp.data ELSE @]
    /\ UNCHANGED <<service, galleryPage, detailPage, loads, route>>

\* The button Try Again of the error view.
ListTryAgain ==
    /\ route = ListRoute
    /\ ~listPage.loading
    /\ listPage.error # noError
    /\ listPage' = loadDriversStart(listPage)
    /\ UNCHANGED <<service, galleryPage, detailPage, loads, route>>

ListSetSearchQuery ==
    /\ route = ListRoute
    /\ listShown(listPage)
    /\ \E q \in ListQueries : listPage' = [listPage EXCEPT !.searchQuery = q]
    /\ UNCHANGED <<service, galleryPage, detailPage, loads, route>>

ListSetSelectedTeam ==
    /\ route = ListRoute
    /\ listShown(listPage)
    /\ \E t \in listTeams(listPage) \cup {<<>>} :
           listPage' = [listPage EXCEPT !.selectedTeam = t]
    /\ UNCHANGED <<service, galleryPage, detailPage, loads, route>>

ListSetSelectedCountry ==
    /\ route = ListRoute
    /\ listShown(listPage)
    /\ \E c \in listCountries(listPage) \cup {<<>>} :
           listPage' = [listPage EXCEPT !.selectedCountry = c]
    /\ UNCHANGED <<service, galleryPage, detailPage, loads, route>>

ListHandleSort ==
    /\ route = ListRoute
    /\ listShown(listPage)
    /\ \E option \in DriverSortOptions :
           listPage' = [listPage EXCEPT !.sortConfig = handleSort(@, option)]
    /\ UNCHANGED <<service, galleryPage, detailPage, loads, route>>

NextList ==
    \/ LoadDriversSettle
    \/ ListTryAgain
    \/ ListSetSearchQuery
    \/ ListSetSelectedTeam
    \/ ListSetSelectedCountry
    \/ ListHandleSort

SpecList == Init /\ [][NextList]_vars

(***************************************************************************)
(* The gallery: its load, and the events of its controls.                  *)
(***************************************************************************)
\* The fetchTeams call awaited by loadTeams ends.
LoadTeamsSettle ==
    /\ route = GalleryRoute
    /\ galleryPage.awaiting > 0
    /\ \E resp \in DriverResponses :
           galleryPage' = [loadTeamsSettle(galleryPage, fetchTeams(resp))
                              EXCEPT !.raw = IF resp.ok THEN resp.data ELSE @]
    /\ UNCHANGED <<service, listPage, detailPage, loads, route>>

\* The button Try Again of the error view.
GalleryTryAgain ==
    /\ route = GalleryRoute
    /\ ~galleryPage.loading
    /\ galleryPage.error # noError
    /\ galleryPage' = loadTeamsStart(galleryPage)
    /\ UNCHANGED <<service, listPage, detailPage, loads, route>>

GallerySetSearchQuery ==
    /\ route = GalleryRoute
    /\ galleryShown(galleryPage)
    /\ \E q \in GalleryQueries : galleryPage' = [galleryPage EXCEPT !.searchQuery = q]
    /\ UNCHANGED <<service, listPage, detailPage, loads, route>>

GallerySetSelectedCountry ==
    /\ route = GalleryRoute
    /\ galleryShown(galleryPage)
    /\ \E c \in galleryCountries(galleryPage) \cup {<<>>} :
           galleryPage' = [galleryPage EXCEPT !.selectedCountry = c]
    /\ UNCHANGED <<service, listPage, detailPage, loads, route>>

GallerySetMinDrivers ==
    /\ route = GalleryRoute
    /\ galleryShown(galleryPage)
    /\ \E m \in GalleryThresholds : galleryPage' = [galleryPage EXCEPT !.minDrivers = m]
    /\ UNCHANGED <<service, listPage, detailPage, loads, route>>

NextGallery ==
    \/ LoadTeamsSettle
    \/ GalleryTryAgain
    \/ GallerySetSearchQuery
    \/ GallerySetSelectedCountry
    \/ GallerySetMinDrivers

SpecGallery == Init /\ [][NextGallery]_vars

(***************************************************************************)
(* The detail page: the changes of its route, its loads, whose branches    *)
(* complete in any order, and the events of its controls.  A load is never *)
(* cancelled.                                                              *)
(***************************************************************************)
\* The route changes to another driver (the history, a link, the address
\* bar): the effect on driverNumber calls loadDriverData.
DetailRouteChange ==
    /\ route = DetailRoute
    /\ detailPage.started < MaxLoads
    /\ \E n \in DetailNumbers \ {detailPage.driverNumber} :
           /\ detailPage' = loadDriverDataStart([detailPage EXCEPT !.driverNumber = n], n)
           /\ loads' = loads \cup {newLoad(detailPage.started + 1, n)}
    /\ UNCHANGED <<service, listPage, galleryPage, route>>

\* handlePreviousDriver: navigates to the previous driver, if there is one.
\* (A navigation to the route the page is at starts no load.)
DetailHandlePreviousDriver ==
    /\ route = DetailRoute
    /\ detailPage.started < MaxLoads
    /\ detailShown(detailPage)
    /\ detailPage.navigation.previous # nullDriver
    /\ \E n \in {detailPage.navigation.previous.driver_number} \ {detailPage.driverNumber} :
           /\ detailPage' = loadDriverDataStart([detailPage EXCEPT !.driverNumber = n], n)
           /\ loads' = loads \cup {newLoad(detailPage.started + 1, n)}
    /\ UNCHANGED <<service, listPage, galleryPage, route>>

\* handleNextDriver: navigates to the next driver, if there is one.
DetailHandleNextDriver ==
    /\ route = DetailRoute
    /\ detailPage.started < MaxLoads
    /\ detailShown(detailPage)
    /\ detailPage.navigation.next # nullDriver
    /\ \E n \in {detailPage.navigation.next.driver_number} \ {detailPage.driverNumber} :
           /\ detailPage' = loadDriverDataStart([detailPage EXCEPT !.driverNumber = n], n)
           /\ loads' = loads \cup {newLoad(detailPage.started + 1, n)}
    /\ UNCHANGED <<service, listPage, galleryPage, route>>

\* The button Try Again of the error view.
DetailTryAgain ==
    /\ route = DetailRoute
    /\ detailPage.started < MaxLoads
    /\ ~detailPage.loading
    /\ ~detailShown(detailPage)
    /\ detailPage' = loadDriverDataStart(detailPage, detailPage.driverNumber)
    /\ loads' = loads \cup {newLoad(detailPage.started + 1, detailPage.driverNumber)}
    /\ UNCHANGED <<service, listPage, galleryPage, route>>

\* The fetchDriverById of a load completes.
DetailDriverDataArrives ==
    /\ route = DetailRoute
    /\ \E load \in loads :
           /\ ~load.driverData.done
           /\ \E resp \in DetailDriverResponses :
                  \A after \in {branchCompletes(detailPage, loads, load,
                                   [load EXCEPT !.driverData =
                                       completedBranch(resp,
                                           fetchDriverById(load.driverNum, resp))])} :
                      /\ detailPage' = after.page
                      /\ loads' = after.loads
    /\ UNCHANGED <<service, listPage, galleryPage, route>>

\* The fetchDriverLaps of a load completes.
DetailLapsDataArrives ==
    /\ route = DetailRoute
    /\ \E load \in loads :
           /\ ~load.lapsData.done
           /\ \E resp \in DetailLapResponses :
                  \A after \in {branchCompletes(detailPage, loads, load,
                                   [load EXCEPT !.lapsData =
                                       completedBranch(resp,
                                           fetchDriverLaps(load.driverNum,
                                                           DefaultLapLimit, resp))])} :
                      /\ detailPage' = after.page
                      /\ loads' = after.loads
    /\ UNCHANGED <<service, listPage, galleryPage, route>>

\* The getDriverNavigation of a load completes.
DetailNavDataArrives ==
    /\ route = DetailRoute
    /\ \E load \in loads :
           /\ ~load.navData.done
           /\ \E resp \in DetailDriverResponses :
                  \A after \in {branchCompletes(detailPage, loads, load,
                                   [load EXCEPT !.navData =
                                       completedBranch(resp,
                                           getDriverNavigation(load.driverNum, resp))])} :
                      /\ detailPage' = after.page
                      /\ loads' = after.loads
    /\ UNCHANGED <<service, listPage, galleryPage, route>>

NextDetail ==
    \/ DetailRouteChange
    \/ DetailHandlePreviousDriver
    \/ DetailHandleNextDriver
    \/ DetailTryAgain
    \/ DetailDriverDataArrives
    \/ DetailLapsDataArrives
    \/ DetailNavDataArrives

SpecDetail == Init /\ [][NextDetail]_vars

(***************************************************************************)
(* The loads of the pages: the page of the matched route makes its first   *)
(* load and the loads of its button Try Again, one after the other.  (The  *)
(* search, filter and sort controls of the list page and of the gallery    *)
(* touch neither a load nor the loading and error states; the changes of   *)
(* the route of the detail page, which start a load while another is in    *)
(* flight, are those of SpecDetail.)  Every request of the service layer   *)
(* ends, with a response or with the timeout of the axios instance, so a   *)
(* load that awaits a request is resumed.                                  *)
(***************************************************************************)
NextLoads ==
    \/ LoadDriversSettle
    \/ ListTryAgain
    \/ LoadTeamsSettle
    \/ GalleryTryAgain
    \/ DetailTryAgain
    \/ DetailDriverDataArrives
    \/ DetailLapsDataArrives
    \/ DetailNavDataArrives

\* The timeout of the axios instance: a request that is still pending fails.
\* Each is the step of the settle or arrival above whose response is Failed.
ListRequestTimesOut ==
    /\ route = ListRoute
    /\ listPage.awaiting > 0
    /\ listPage' = loadDriversSettle(listPage, fetchDrivers(Failed))
    /\ UNCHANGED <<service, galleryPage, detailPage, loads, route>>

GalleryRequestTimesOut ==
    /\ route = GalleryRoute
    /\ galleryPage.awaiting > 0
    /\ galleryPage' = loadTeamsSettle(galleryPage, fetchTeams(Failed))
    /\ UNCHANGED <<service, listPage, detailPage, loads, route>>

DetailDriverRequestTimesOut ==
    /\ route = DetailRoute
    /\ \E load \in loads :
           /\ ~load.driverData.done
           /\ \A after \in {branchCompletes(detailPage, loads, load,
                               [load EXCEPT !.driverData =
                                   completedBranch(Failed,
                                       fetchDriverById(load.driverNum, Failed))])} :
                  /\ detailPage' = after.page
                  /\ loads' = after.loads
    /\ UNCHANGED <<service, listPage, galleryPage, route>>

DetailLapsRequestTimesOut ==
    /\ route = DetailRoute
    /\ \E load \in loads :
           /\ ~load.lapsData.done
           /\ \A after \in {branchCompletes(detailPage, loads, load,
                               [load EXCEPT !.lapsData =
                                   completedBranch(Failed,
                                       fetchDriverLaps(load.driverNum,
                                                       DefaultLapLimit, Failed))])} :
                  /\ detailPage' = after.page
                  /\ loads' = after.loads
    /\ UNCHANGED <<service, listPage, galleryPage, route>>

DetailNavRequestTimesOut ==
    /\ route = DetailRoute
    /\ \E load \in loads :
           /\ ~load.navData.done
           /\ \A after \in {branchCompletes(detailPage, loads, load,
                               [load EXCEPT !.navData =
                                   completedBranch(Failed,
                                       getDriverNavigation(load.driverNum, Failed))])} :
                  /\ detailPage' = after.page
                  /\ loads' = after.loads
    /\ UNCHANGED <<service, listPage, galleryPage, route>>

\* No request stays pending for ever: it ends before its timeout (which
\* disables the timeout) or with it.
RequestsEnd ==
    /\ WF_vars(ListRequestTimesOut)
    /\ WF_vars(GalleryRequestTimesOut)
    /\ WF_vars(DetailDriverRequestTimesOut)
    /\ WF_vars(DetailLapsRequestTimesOut)
    /\ WF_vars(DetailNavRequestTimesOut)

SpecLoads == Init /\ [][NextLoads]_vars /\ RequestsEnd

(***************************************************************************)
(* Helpers of the properties.                                              *)
(***************************************************************************)
\* How often x occurs in the sequence s.
Count(x, s) == Cardinality({i \in DOMAIN s : s[i] = x})

\* Sum of the lengths of the member lists of the first k teams.
MemberCount(teams, k) ==
    LET sum[i \in 0..k] == IF i = 0 THEN 0 ELSE sum[i - 1] + Len(teams[i].drivers)
    IN sum[k]

TeamKey(d) == IF Truthy(d.team_name) THEN d.team_name ELSE UnknownTeam

Min(a, b) == IF a < b THEN a ELSE b

\* The drivers a successful fetch hands to its caller.
Fetched == fetchDrivers(response).value

UniqueNumbers(ds) ==
    \A i, j \in DOMAIN ds : ds[i].driver_number = ds[j].driver_number => i = j

NumbersOf(ds) == {ds[i].driver_number : i \in DOMAIN ds}

NoNavigation == [previous |-> nullDriver, next |-> nullDriver]

(***************************************************************************)
(* C1: team aggregation partitions the fetched drivers: the member counts  *)
(* sum to the number of drivers, every driver is in exactly one team, as   *)
(* often as it was fetched, each team has as many members as there are     *)
(* drivers with its key, and no drivers give no teams.                     *)
(***************************************************************************)
AggregationPartitions ==
    (op = "fetchTeams" /\ response.ok) =>
        /\ outcome = "returned"
        /\ MemberCount(result, Len(result)) = Len(Fetched)
        /\ \A i, j \in DOMAIN result :
               result[i].team_name = result[j].team_name => i = j
        /\ \A d \in Range(Fetched) :
               \E i \in DOMAIN result :
                   /\ Count(d, result[i].drivers) = Count(d, Fetched)
                   /\ \A j \in DOMAIN result \ {i} : Count(d, result[j].drivers) = 0
        /\ \A i \in DOMAIN result :
               /\ Range(result[i].drivers) \subseteq Range(Fetched)
               /\ Len(result[i].drivers) =
                      Cardinality({k \in DOMAIN Fetched :
                                      TeamKey(Fetched[k]) = result[i].team_name})
        /\ (Fetched = <<>> => result = <<>>)

\* Three drivers in two teams, one of them the team of the drivers without
\* a team name.
AggregationWitness ==
    /\ op = "fetchTeams"
    /\ outcome = "returned"
    /\ Len(response.data) = 3
    /\ Len(result) = 2
    /\ \E i \in DOMAIN result : Len(result[i].drivers) = 2
    /\ \E i \in DOMAIN result : result[i].team_name = UnknownTeam

(***************************************************************************)
(* C2, as claimed: when the remote request fails, fetchDrivers and         *)
(* fetchTeams return an empty sequence and raise no error.                 *)
(***************************************************************************)
DriversAndTeamsDegradeToEmpty ==
    (op \in {"fetchDrivers", "fetchTeams"} /\ ~response.ok) =>
        (outcome = "returned" /\ result = <<>>)

(***************************************************************************)
(* C2, amended: when the remote request fails, fetchDrivers and fetchTeams *)
(* raise an error to their caller ("Failed to fetch F1 drivers data",      *)
(* "Failed to fetch F1 teams data") and return nothing.                    *)
(***************************************************************************)
DriversAndTeamsThrow ==
    /\ (op = "fetchDrivers" /\ ~response.ok) =>
           (outcome = "threw" /\ result = "Failed to fetch F1 drivers data")
    /\ (op = "fetchTeams" /\ ~response.ok) =>
           (outcome = "threw" /\ result = "Failed to fetch F1 teams data")
    /\ (op \in {"fetchDrivers", "fetchTeams"} /\ response.ok) =>
           outcome = "returned"

DriversAndTeamsThrowWitness ==
    /\ op = "fetchTeams"
    /\ ~response.ok
    /\ outcome = "threw"

(***************************************************************************)
(* C3: when the list-drivers request fails, fetchDriverById raises an      *)
(* error; it returns null only when the fetch succeeded and no driver has  *)
(* the requested number.                                                   *)
(***************************************************************************)
LookupPropagatesFailure ==
    op = "fetchDriverById" =>
        /\ ~response.ok => outcome = "threw"
        /\ (outcome = "returned" /\ result = nullDriver) =>
               (response.ok /\ driverNumber \notin NumbersOf(response.data))

(***************************************************************************)
(* C4: when the remote request fails, fetchDriverLaps,                     *)
(* fetchRecentSessions, fetchMeetings, fetchPositions and                  *)
(* fetchSessionResults return an empty sequence and raise no error.        *)
(***************************************************************************)
ListOperationsDegradeToEmpty ==
    (/\ op \in {"fetchDriverLaps", "fetchRecentSessions", "fetchMeetings",
                "fetchPositions", "fetchSessionResults"}
     /\ ~response.ok) =>
        (outcome = "returned" /\ result = <<>>)

ListOperationsDegradeWitness ==
    /\ op = "fetchDriverLaps"
    /\ ~response.ok
    /\ outcome = "returned"
    /\ result = <<>>

(***************************************************************************)
(* C5: for a fetched list with unique driver numbers that holds the        *)
(* requested number, previous is the driver with the greatest smaller      *)
(* number (null for the minimum) and next the driver with the smallest     *)
(* greater number (null for the maximum), whatever the fetched order.      *)
(***************************************************************************)
NavigationFollowsNumberOrder ==
    (/\ op = "getDriverNavigation"
     /\ response.ok
     /\ UniqueNumbers(response.data)
     /\ driverNumber \in NumbersOf(response.data)) =>
        LET smaller == {d \in Range(Fetched) : d.driver_number < driverNumber}
            greater == {d \in Range(Fetched) : d.driver_number > driverNumber}
        IN /\ outcome = "returned"
           /\ result.previous =
                  IF smaller = {} THEN nullDriver
                  ELSE CHOOSE d \in smaller :
                           \A e \in smaller : e.driver_number <= d.driver_number
           /\ result.next =
                  IF greater = {} THEN nullDriver
                  ELSE CHOOSE d \in greater :
                           \A e \in greater : d.driver_number <= e.driver_number

\* Three drivers fetched out of order, the requested one between the others.
NavigationOrderWitness ==
    /\ op = "getDriverNavigation"
    /\ response.ok
    /\ UniqueNumbers(response.data)
    /\ Len(response.data) = 3
    /\ response.data[1].driver_number > response.data[2].driver_number
    /\ outcome = "returned"
    /\ result.previous # nullDriver
    /\ result.next # nullDriver

(***************************************************************************)
(* C6: when the requested number is not in the fetched list, previous is   *)
(* null and next is the first driver of the ascending order, a driver with *)
(* the smallest number; for an empty list both are null.                   *)
(***************************************************************************)
NavigationOfAbsentNumber ==
    (/\ op = "getDriverNavigation"
     /\ response.ok
     /\ driverNumber \notin NumbersOf(response.data)) =>
        /\ outcome = "returned"
        /\ result.previous = nullDriver
        /\ Fetched = <<>> => result.next = nullDriver
        /\ Fetched # <<>> =>
               LET first == CHOOSE i \in DOMAIN Fetched :
                                \A j \in DOMAIN Fetched :
                                    \/ Fetched[i].driver_number < Fetched[j].driver_number
                                    \/ /\ Fetched[i].driver_number = Fetched[j].driver_number
                                       /\ i <= j
               IN result.next = Fetched[first]

\* An absent number asked of a list whose first driver is not the smallest.
NavigationAbsentWitness ==
    /\ op = "getDriverNavigation"
    /\ response.ok
    /\ driverNumber \notin NumbersOf(response.data)
    /\ Len(response.data) >= 2
    /\ response.data[1].driver_number > response.data[2].driver_number
    /\ result.previous = nullDriver
    /\ result.next # nullDriver

(***************************************************************************)
(* C7: getDriverNavigation raises no error: it returns a navigation result *)
(* for every number and every outcome of the request, and exactly          *)
(* {previous: null, next: null} when the request fails.                    *)
(***************************************************************************)
NavigationNeverFails ==
    op = "getDriverNavigation" =>
        /\ outcome = "returned"
        /\ DOMAIN result = {"previous", "next"}
        /\ \A side \in {"previous", "next"} :
               result[side] = nullDriver \/ result[side] \in Range(Fetched)
        /\ ~response.ok => result = NoNavigation

NavigationFailureWitness ==
    /\ op = "getDriverNavigation"
    /\ ~response.ok
    /\ outcome = "returned"
    /\ result = NoNavigation

(***************************************************************************)
(* C8: every driver a successful fetchDrivers returns has a non-empty      *)
(* country code: the raw one when that was non-empty, else the map entry   *)
(* of the upper-cased last token of full_name, else "INT"; its other       *)
(* fields are those of the raw record.                                     *)
(***************************************************************************)
CountryCodeFilled ==
    (op = "fetchDrivers" /\ response.ok) =>
        /\ outcome = "returned"
        /\ Len(result) = Len(response.data)
        /\ \A i \in DOMAIN result :
               LET raw == response.data[i]
                   surname == toUpperCase(splitPop(raw.full_name))
               IN /\ result[i].country_code \notin {<<>>, null, undefined}
                  /\ result[i].country_code =
                         IF raw.country_code \notin {<<>>, null, undefined}
                         THEN raw.country_code
                         ELSE IF \E e \in countryMap : e.key = surname
                         THEN (CHOOSE e \in countryMap : e.key = surname).value
                         ELSE INT
                  /\ [result[i] EXCEPT !.country_code = raw.country_code] = raw

\* One fetch in which a code is kept, one is taken from the map and one is
\* the sentinel.
CountryCodeWitness ==
    /\ op = "fetchDrivers"
    /\ response.ok
    /\ outcome = "returned"
    /\ \E i, j, k \in DOMAIN result :
           /\ response.data[i].country_code = null
           /\ result[i].country_code = <<"N","L","D">>
           /\ response.data[j].country_code = null
           /\ result[j].country_code = INT
           /\ response.data[k].country_code = <<"J","P","N">>
           /\ result[k].country_code = <<"J","P","N">>

(***************************************************************************)
(* C9: the normalization is idempotent: applied to a driver fetchDrivers   *)
(* has normalized, it returns that driver.                                 *)
(***************************************************************************)
NormalizationIdempotent ==
    (op = "fetchDrivers" /\ response.ok) =>
        \A i \in DOMAIN result : fillCountryCode(result[i]) = result[i]

\* A fetch in which the normalization changed a driver.
NormalizationWitness ==
    /\ op = "fetchDrivers"
    /\ response.ok
    /\ outcome = "returned"
    /\ \E i \in DOMAIN result :
           /\ response.data[i].country_code = <<>>
           /\ result[i] # response.data[i]
           /\ fillCountryCode(result[i]) = result[i]

(***************************************************************************)
(* C10: a successful fetchDriverLaps returns min(limit, n) of the n laps,  *)
(* those with the highest lap numbers, in non-increasing order of lap      *)
(* number; with the default limit at most 10 laps, and of the laps 1..12   *)
(* the laps 12, 11, ..., 3.                                                *)
(***************************************************************************)
LapsMostRecentFirst ==
    (op = "fetchDriverLaps" /\ response.ok) =>
        LET laps == response.data
        IN /\ outcome = "returned"
           /\ Len(result) = Min(limit, Len(laps))
           /\ \A i \in 1..(Len(result) - 1) :
                  result[i].lap_number >= result[i + 1].lap_number
           /\ \A l \in Range(result) : Count(l, result) <= Count(l, laps)
           /\ \A l \in Range(laps) :
                  Count(l, result) < Count(l, laps) =>
                      \A r \in Range(result) : l.lap_number <= r.lap_number
           /\ limit = DefaultLapLimit => Len(result) <= 10
           /\ (limit = 10 /\ laps = LapRun(12)) =>
                  [i \in 1..Len(result) |-> result[i].lap_number] =
                      <<12, 11, 10, 9, 8, 7, 6, 5, 4, 3>>

\* Twelve laps fetched with the default limit: ten are returned.
LapsWitness ==
    /\ op = "fetchDriverLaps"
    /\ response.ok
    /\ limit = DefaultLapLimit
    /\ Len(response.data) = 12
    /\ outcome = "returned"
    /\ Len(result) = 10

(***************************************************************************)
(* Helpers of the properties of the list page.                             *)
(***************************************************************************)
\* s and t hold the same elements, each as often.
Permutation(s, t) ==
    /\ Len(s) = Len(t)
    /\ \A x \in Range(s) \cup Range(t) : Count(x, s) = Count(x, t)

\* The drivers of the list page as the page shows them.
ListView == filteredAndSortedDrivers(listPage)

\* q is a substring of s, the case of the letters apart.
SubstringIgnoringCase(q, s) ==
    \E k \in 0..(Len(s) - Len(q)) :
        \A i \in 1..Len(q) : toLowerCaseChar(s[k + i]) = toLowerCaseChar(q[i])

\* The filter of the list page as its specification states it.
Passes(d) ==
    /\ \/ listPage.searchQuery = <<>>
       \/ SubstringIgnoringCase(listPage.searchQuery, d.full_name)
       \/ SubstringIgnoringCase(listPage.searchQuery, d.broadcast_name)
       \/ /\ d.team_name \notin {null, undefined}
          /\ SubstringIgnoringCase(listPage.searchQuery, d.team_name)
    /\ \/ listPage.selectedTeam = <<>>
       \/ d.team_name = listPage.selectedTeam
    /\ \/ listPage.selectedCountry = <<>>
       \/ (IF d.country_code \in {null, undefined, <<>>} THEN INT ELSE d.country_code)
              = listPage.selectedCountry

(***************************************************************************)
(* C11: with no query, no filters and the sort by driver_number ascending, *)
(* the list page shows a permutation of its drivers in non-decreasing      *)
(* order of driver_number.                                                 *)
(***************************************************************************)
ListAllByNumber ==
    (/\ listPage.searchQuery = <<>>
     /\ listPage.selectedTeam = <<>>
     /\ listPage.selectedCountry = <<>>
     /\ listPage.sortConfig = [option |-> "driver_number", order |-> "asc"]) =>
        \A view \in {ListView} :
            /\ Permutation(view, listPage.drivers)
            /\ \A i \in 1..(Len(view) - 1) :
                   view[i].driver_number <= view[i + 1].driver_number

\* Drivers loaded with a two-digit number before a smaller one-digit number.
ListAllByNumberWitness ==
    /\ listPage.searchQuery = <<>>
    /\ listPage.selectedTeam = <<>>
    /\ listPage.selectedCountry = <<>>
    /\ listPage.sortConfig = [option |-> "driver_number", order |-> "asc"]
    /\ Len(listPage.drivers) >= 2
    /\ listPage.drivers[1].driver_number = 22
    /\ listPage.drivers[2].driver_number = 4
    /\ ListView[1].driver_number = 4

(***************************************************************************)
(* C12: the list page shows exactly the drivers that pass the query, the   *)
(* team filter and the country filter, each as often as it was loaded.     *)
(***************************************************************************)
ListShowsPassingDrivers ==
    \A view \in {ListView} :
        /\ Range(view) \subseteq Range(listPage.drivers)
        /\ \A d \in Range(listPage.drivers) :
               Count(d, view) = IF Passes(d) THEN Count(d, listPage.drivers) ELSE 0

\* A query in capitals and a team chosen: one driver of two is shown.
ListShowsPassingWitness ==
    /\ listPage.searchQuery = <<"L"," ","N">>
    /\ listPage.selectedTeam = McLaren
    /\ listPage.selectedCountry # <<>>
    /\ Len(listPage.drivers) = 2
    /\ Len(ListView) = 1

(***************************************************************************)
(* C13: the sort is stable under every option and both orders: the drivers *)
(* whose keys compare equal are shown in the order they were loaded in.    *)
(***************************************************************************)
ListSortStable ==
    \A view \in {ListView} :
        \A passing \in {ArrayFilter(listPage.drivers,
                                    {d \in Range(listPage.drivers) : Passes(d)})} :
            \A d \in Range(passing) :
                LET compare == compareDrivers(passing, listPage.sortConfig)
                    equal == {e \in Range(passing) : compare[<<d, e>>] = 0}
                IN ArrayFilter(view, equal) = ArrayFilter(passing, equal)

\* Two drivers of one team sorted by team, descending.
ListSortStableWitness ==
    /\ listPage.sortConfig = [option |-> "team", order |-> "desc"]
    /\ Len(ListView) >= 2
    /\ ListView[1] # ListView[2]
    /\ ListView[1].team_name = ListView[2].team_name
    /\ ListView[1] = listPage.drivers[1]


(***************************************************************************)
(* Helpers of the properties of the gallery.                               *)
(***************************************************************************)
\* The teams of the gallery as the page shows them.
GalleryView == filteredTeams(galleryPage)

\* The filter of the gallery as its specification states it.
PassesTeam(t) ==
    /\ \/ SubstringIgnoringCase(galleryPage.searchQuery, t.team_name)
       \/ \E i \in DOMAIN t.drivers :
              \/ SubstringIgnoringCase(galleryPage.searchQuery, t.drivers[i].full_name)
              \/ SubstringIgnoringCase(galleryPage.searchQuery, t.drivers[i].broadcast_name)
    /\ \/ galleryPage.selectedCountry = <<>>
       \/ \E i \in DOMAIN t.country_codes : t.country_codes[i] = galleryPage.selectedCountry
    /\ Len(t.drivers) >= galleryPage.minDrivers

\* s holds some of the elements of t, each once, in the order of t.
OrderedSelection(s, t) ==
    \E f \in [DOMAIN s -> DOMAIN t] :
        /\ \A i \in DOMAIN s : s[i] = t[f[i]]
        /\ \A i, j \in DOMAIN s : i < j => f[i] < f[j]

(***************************************************************************)
(* C14: the gallery shows exactly the teams that pass the search text, the *)
(* country filter and the threshold on the number of members, in the order *)
(* of the team list.                                                       *)
(***************************************************************************)
GalleryShowsPassingTeams ==
    \A view \in {GalleryView} :
        /\ OrderedSelection(view, galleryPage.teams)
        /\ Range(view) = {t \in Range(galleryPage.teams) : PassesTeam(t)}

\* Two teams are loaded; the search text is in a team name and not as
\* typed, a country and a threshold of two members are chosen, and one team
\* passes while the other does not.
GalleryShowsPassingWitness ==
    /\ galleryShown(galleryPage)
    /\ Len(galleryPage.teams) = 2
    /\ galleryPage.searchQuery = <<"R","E","D">>
    /\ galleryPage.selectedCountry # <<>>
    /\ galleryPage.minDrivers = 2
    /\ Len(GalleryView) = 1


(***************************************************************************)
(* Helpers of the properties of the order of the teams.                    *)
(***************************************************************************)
\* The position of the first element of the sequence s that is in the set S.
FirstIn(s, S) == CHOOSE i \in DOMAIN s : s[i] \in S /\ \A j \in 1..(i - 1) : s[j] \notin S

\* The fetched drivers whose team key is k.
KeyedBy(k) == {d \in Range(Fetched) : TeamKey(d) = k}

\* The fetched drivers whose team key is k, in the order fetched.
MembersOf(k) == SelectSeq(Fetched, LAMBDA d : TeamKey(d) = k)

(***************************************************************************)
(* C17: team aggregation keeps the order of first appearance: the teams    *)
(* are in the order of their first drivers, the members of a team are the  *)
(* fetched drivers of its key in the order fetched, the colour of a team   *)
(* is that of its first driver, and the country codes of a team are those  *)
(* of its members, each once, in the order they first occur.               *)
(***************************************************************************)
AggregationKeepsFirstSeenOrder ==
    (op = "fetchTeams" /\ response.ok) =>
        /\ \A i, j \in DOMAIN result :
               i < j => FirstIn(Fetched, KeyedBy(result[i].team_name))
                            < FirstIn(Fetched, KeyedBy(result[j].team_name))
        /\ \A i \in DOMAIN result :
               \A team \in {result[i]} :
                   /\ team.drivers = MembersOf(team.team_name)
                   /\ team.drivers # <<>>
                   /\ team.team_colour = team.drivers[1].team_colour
                   /\ \A a, b \in DOMAIN team.country_codes :
                          team.country_codes[a] = team.country_codes[b] => a = b
                   /\ Range(team.country_codes) =
                          {team.drivers[m].country_code : m \in DOMAIN team.drivers}
                   /\ \A a, b \in DOMAIN team.country_codes :
                          a < b =>
                              FirstIn(team.drivers,
                                      {d \in Range(team.drivers) :
                                          d.country_code = team.country_codes[a]})
                                < FirstIn(team.drivers,
                                          {d \in Range(team.drivers) :
                                              d.country_code = team.country_codes[b]})

\* Three drivers; the first and the third are of one team, with different
\* colours and country codes, and the second is of another team.
AggregationOrderWitness ==
    /\ op = "fetchTeams"
    /\ outcome = "returned"
    /\ Len(response.data) = 3
    /\ Len(result) = 2
    /\ TeamKey(response.data[1]) = TeamKey(response.data[3])
    /\ TeamKey(response.data[1]) # TeamKey(response.data[2])
    /\ response.data[1].team_colour # response.data[3].team_colour
    /\ Len(result[1].country_codes) = 2


(***************************************************************************)
(* C18, as claimed: under the sort by country in ascending order, the list *)
(* page shows every driver whose country code was missing from the         *)
(* response after every driver whose country code was in it.               *)
(***************************************************************************)
\* The driver at position i of the list page came without a country code.
CodeMissing(i) == listPage.raw[i].country_code \in {null, undefined}

\* The driver at position i of the list page came with a country code.
CodePresent(i) == Truthy(listPage.raw[i].country_code)

MissingCountryCodesLast ==
    (listPage.sortConfig = [option |-> "country", order |-> "asc"]) =>
        \A view \in {ListView} :
            \A i, j \in DOMAIN listPage.drivers :
                (/\ CodeMissing(i)
                 /\ CodePresent(j)
                 /\ listPage.drivers[i] \in Range(view)
                 /\ listPage.drivers[j] \in Range(view)) =>
                    FirstIn(view, {listPage.drivers[j]})
                        < FirstIn(view, {listPage.drivers[i]})


(***************************************************************************)
(* Helpers of the properties of the detail page.                           *)
(***************************************************************************)
\* Every branch of the load has completed.
AllBranchesDone(l) == l.driverData.done /\ l.lapsData.done /\ l.navData.done

\* The driver lookup of the load found a driver.
LookupFound(l) ==
    l.driverData.done /\ l.driverData.result.value # nullDriver

\* The message of the error state for a driver that is not found.
NotFoundMessage(n) == "Driver with number " \o ToString(n) \o " not found."

(***************************************************************************)
(* C15: the detail page stores driver, laps and navigation only from a     *)
(* load whose three branches have all completed, and all three from that   *)
(* one load: in no state are they the results of different loads, or of a  *)
(* load still in flight.                                                   *)
(***************************************************************************)
DetailShowsOneCompletedLoad ==
    \A l \in {detailPage.from} :
        IF l.id = 0
        THEN /\ detailPage.driver = nullDriver
             /\ detailPage.laps = <<>>
             /\ detailPage.navigation = NoNavigation
        ELSE /\ AllBranchesDone(l)
             /\ \A load \in loads : load.id # l.id
             /\ detailPage.driver = l.driverData.result.value
             /\ detailPage.laps = l.lapsData.result.value
             /\ detailPage.navigation = l.navData.result.value

\* The page holds the driver, laps and navigation of one load while another
\* load, for another driver, has found its driver and its laps and waits
\* for its navigation.
DetailOneLoadWitness ==
    /\ detailPage.from.id # 0
    /\ detailPage.laps # <<>>
    /\ detailPage.navigation # NoNavigation
    /\ \E load \in loads :
           /\ load.driverNum # detailPage.from.driverNum
           /\ LookupFound(load)
           /\ load.lapsData.done
           /\ ~load.navData.done

(***************************************************************************)
(* C16: the branches of a load fail on their own: a load whose lookup      *)
(* found the driver stores the driver, with no laps when the request for   *)
(* the laps failed and with no previous and no next driver when the        *)
(* request of the navigation failed, and sets no error; the error state    *)
(* is set only by a load whose lookup failed or found no driver.           *)
(***************************************************************************)
DetailBranchesFailIndependently ==
    /\ \A l \in {detailPage.from} :
           l.id # 0 =>
               /\ LookupFound(l)
               /\ detailPage.driver = l.driverData.result.value
               /\ ~l.lapsData.ok => detailPage.laps = <<>>
               /\ ~l.navData.ok => detailPage.navigation = NoNavigation
    /\ \A l \in {detailPage.errorFrom} :
           IF l.id = 0
           THEN detailPage.error = noError
           ELSE /\ ~LookupFound(l)
                /\ detailPage.error = NotFoundMessage(l.driverNum)
    /\ (~detailPage.loading /\ detailPage.settled # 0) =>
           \/ detailPage.from.id = detailPage.settled
           \/ detailPage.errorFrom.id = detailPage.settled

\* A load has just ended whose lookup found the driver while its requests
\* for the laps and for the navigation both failed: the driver is on display.
DetailBranchesFailWitness ==
    /\ detailShown(detailPage)
    /\ detailPage.from.id = detailPage.settled
    /\ detailPage.from.driverData.ok
    /\ ~detailPage.from.lapsData.ok
    /\ ~detailPage.from.navData.ok
    /\ detailPage.driver.driver_number = detailPage.from.driverNum

(***************************************************************************)
(* C19, as claimed: once no load is in flight, the driver, laps and        *)
(* navigation on display are those of the load made for the route the      *)
(* page is at, the most recent one.                                        *)
(***************************************************************************)
DetailShowsLatestRequest ==
    (loads = {} /\ detailShown(detailPage)) =>
        /\ detailPage.from.id = detailPage.started
        /\ detailPage.driver.driver_number = detailPage.driverNumber

(***************************************************************************)
(* C20, as claimed: the loading flag of the detail page is true while a    *)
(* load is in flight.                                                      *)
(***************************************************************************)
DetailLoadingWhileInFlight ==
    loads # {} => detailPage.loading


(***************************************************************************)
(* C21, as claimed: whenever the detail page displays a driver with its    *)
(* navigation, a previous driver has a smaller driver_number than the      *)
(* driver on display and a next driver a greater one, whatever the two     *)
(* requests for the drivers of the load returned.                          *)
(***************************************************************************)
DetailNavigationBrackets ==
    detailShown(detailPage) =>
        /\ detailPage.navigation.previous # nullDriver =>
               detailPage.navigation.previous.driver_number
                   < detailPage.driver.driver_number
        /\ detailPage.navigation.next # nullDriver =>
               detailPage.navigation.next.driver_number
                   > detailPage.driver.driver_number


(***************************************************************************)
(* Helpers of the properties of the loads of the pages.                    *)
(***************************************************************************)
\* The load of the list page has finished: nothing is awaited and the
\* loading flag is false.
ListLoadFinished == listPage.awaiting = 0 /\ ~listPage.loading

GalleryLoadFinished == galleryPage.awaiting = 0 /\ ~galleryPage.loading

\* The loads of the detail page have finished: none is awaiting its fetches
\* and the loading flag is false.
DetailLoadsFinished == loads = {} /\ ~detailPage.loading

\* A step in which a load of the detail page ends leaves the loading flag
\* false.
EndClearsLoading ==
    (\E load \in loads : \A other \in loads' : other.id # load.id) =>
        ~detailPage'.loading

\* A page whose load has finished shows an error message or holds the data
\* that was fetched.
LoadsEndInErrorOrData ==
    /\ ~listPage.loading =>
           \/ listPage.error = "Failed to load F1 drivers. Please try again."
           \/ /\ listPage.error = noError
              /\ listPage.drivers = fetchDrivers(Ok(listPage.raw)).value
    /\ ~galleryPage.loading =>
           \/ galleryPage.error = "Failed to load F1 teams. Please try again."
           \/ /\ galleryPage.error = noError
              /\ galleryPage.teams = fetchTeams(Ok(galleryPage.raw)).value
    /\ ~detailPage.loading =>
           \/ /\ detailPage.errorFrom.id = detailPage.settled
              /\ detailPage.error = NotFoundMessage(detailPage.errorFrom.driverNum)
           \/ /\ detailPage.from.id = detailPage.settled
              /\ detailPage.driver = detailPage.from.driverData.result.value
              /\ detailPage.laps = detailPage.from.lapsData.result.value
              /\ detailPage.navigation = detailPage.from.navData.result.value

\* A step that starts a load leaves no error message.
StartClearsError ==
    /\ listPage'.awaiting > listPage.awaiting => listPage'.error = noError
    /\ galleryPage'.awaiting > galleryPage.awaiting => galleryPage'.error = noError
    /\ detailPage'.started > detailPage.started => detailPage'.error = noError

(***************************************************************************)
(* C22: every load of a page that starts finishes, with the loading flag   *)
(* false, whatever its requests return; when it has finished the page      *)
(* shows an error message or holds the fetched data; and the start of a    *)
(* load clears the error message.                                          *)
(***************************************************************************)
PageLoadsFinish ==
    /\ (route = ListRoute /\ listPage.awaiting > 0) ~> ListLoadFinished
    /\ (route = GalleryRoute /\ galleryPage.awaiting > 0) ~> GalleryLoadFinished
    /\ (route = DetailRoute /\ loads # {}) ~> DetailLoadsFinished
    /\ [][EndClearsLoading]_vars
    /\ []LoadsEndInErrorOrData
    /\ [][StartClearsError]_vars

\* On the detail page a first load ended with an error message, Try Again
\* started a second load for the same driver, and that load has finished
\* with the driver stored and no error message.
PageLoadsFinishWitness ==
    /\ route = DetailRoute
    /\ detailPage.driverNumber = 22
    /\ detailPage.started = 2
    /\ DetailLoadsFinished
    /\ detailPage.settled = 2
    /\ detailPage.from.id = 2
    /\ detailPage.error = noError

====
